---- MODULE Spec2Model ----
(***************************************************************************)
(* Model of src/app.py: SupportTicketingSystem, a single sequential        *)
(* orchestrator that polls a mailbox, turns every unseen message into a    *)
(* ticket in a document store and mails a confirmation to the sender.      *)
(*                                                                         *)
(* Ticket ids are 14-digit integers (YYYYMMDD followed by a 6-digit        *)
(* counter).  They are kept as a pair [hi, lo] with value                  *)
(* hi * CounterWidth + lo, so that the arithmetic of the code (max + 1,    *)
(* comparison) is exact inside TLC's integer range.                        *)
(***************************************************************************)
EXTENDS Integers, Sequences, FiniteSets, TLC

\* ------------------------------------------------------------------ bounds
MaxMsgs == 2          \* messages that ever arrive in the mailbox
MaxClock == 1         \* last instant of the clock
MaxFail == 1          \* fetches answered "NO" plus confirmations that fail

\* ------------------------------------------------------- program constants
CounterWidth == 1000000      \* the six digits occupied by `counter`
counter == 100000            \* app.py:103
SentinelHi == 10000000       \* 10000000000000 = SentinelHi * CounterWidth

None == "<None>"             \* Python's None
NoTime == -1                 \* the "" stored in the sentinel's timestamps

\* ------------------------------------------------------------- id algebra
MkId(hi, lo) == [hi |-> hi, lo |-> lo]

IdLess(a, b) == a.hi < b.hi \/ (a.hi = b.hi /\ a.lo < b.lo)

\* the `+ 1` left out
IdSuccSame(a) == a

\* latest_ticket_id + 1
IdSucc(a) == IF a.lo + 1 = CounterWidth THEN MkId(a.hi + 1, 0)
                                        ELSE MkId(a.hi, a.lo + 1)

SentinelId == MkId(SentinelHi, 0)

\* int(f"{year}{str(month).zfill(2)}{date}{counter}")
InitialTicketId(y, m, d) == MkId((y * 100 + m) * 100 + d, counter)

\* ------------------------------------------------------------------ clock
\* The calendar date shown by datetime.now() at instant t.  The instants of
\* the model are one per day, and the days run over a year end: 2026-12-31,
\* 2027-01-01, 2027-01-02, ...
DayOf(t) == t

DateOf(t) == IF DayOf(t) = 0 THEN [year |-> 2026, month |-> 12, day |-> 31]
                             ELSE [year |-> 2027, month |-> 1, day |-> DayOf(t)]

DateSeed(dt) == InitialTicketId(dt.year, dt.month, dt.day)

\* --------------------------------------------------------------- messages
\* The raw messages the mail service may hold: From header, Subject header
\* and the single payload.
RawMessages ==
  { [from |-> "alice@example.com", subject |-> "Help", body |-> "It's broken"],
    [from |-> None, subject |-> None, body |-> ""],
    [from |-> "", subject |-> "", body |-> "It's broken"] }

\* Python truthiness of a str-or-None value
Truthy(x) == x # None /\ x # ""

\* the default only for None: x if x is not None else default
OrDefaultNoneOnly(x, default) == IF x # None THEN x ELSE default

\* x or default
OrDefault(x, default) == IF Truthy(x) THEN x ELSE default

\* parse_email's result when the fetch status is not OK
NoneTriple == [sender |-> None, subject |-> None, message |-> None]

\* parse_email's result for a fetched message
ParsedFields(raw) ==
  [sender  |-> raw.from,
   subject |-> IF Truthy(raw.subject) THEN raw.subject ELSE "No Subject",
   message |-> raw.body]

\* a select that never reports a failure
SelectFailedNever(st) == FALSE

\* fetch_unseen_emails: status != "OK" after select('Inbox')
SelectFailed(st) == st # "OK"

\* mailservice.search(None, 'UNSEEN'): sequence numbers of unseen messages,
\* in ascending order
RECURSIVE UnseenFrom(_, _)
UnseenFrom(mb, i) ==
  IF i > Len(mb) THEN <<>>
  ELSE IF mb[i].seen THEN UnseenFrom(mb, i + 1)
       ELSE <<i>> \o UnseenFrom(mb, i + 1)

UnseenIds(mb) == UnseenFrom(mb, 1)

SeenSet(mb) == {i \in DOMAIN mb : mb[i].seen}

\* a loop that stops one element short
HasNextSkippingLast(ids, i) == i + 1 < Len(ids)

\* `for email_id in email_ids`: there is an element after position i
HasNext(ids, i) == i < Len(ids)

\* ------------------------------------------------------------------ store
\* The collection is a sequence of documents in insertion order; _id is the
\* primary key.
\* a collection without a unique key
HasIdNever(st, id) == FALSE

\* insert_one raises DuplicateKeyError when the _id is present
HasId(st, id) == \E i \in DOMAIN st : st[i]._id = id

\* an upsert in place of the insert: replace_one({}, doc, upsert=True)
InsertOneReplacing(st, doc) ==
  IF st = <<>> THEN <<doc>> ELSE [st EXCEPT ![1] = doc]

\* self.collection.insert_one(doc): the document is added to the collection
InsertOne(st, doc) == Append(st, doc)

\* the sort direction reversed: find_one(sort=[('_id', 1)])['_id']
LatestIdAscending(st) ==
  LET i == CHOOSE i \in DOMAIN st :
             \A j \in DOMAIN st : ~IdLess(st[j]._id, st[i]._id)
  IN st[i]._id

\* find_one(sort=[('_id', -1)])['_id']
LatestId(st) ==
  LET i == CHOOSE i \in DOMAIN st :
             \A j \in DOMAIN st : ~IdLess(st[i]._id, st[j]._id)
  IN st[i]._id

\* the document inserted by generate_ticket_id on an empty collection
SentinelRecord(initial_ticket_id) ==
  [_id |-> SentinelId, ticket_id |-> initial_ticket_id,
   sender |-> "", subject |-> "", message |-> "", status |-> "",
   created_at |-> NoTime, updated_at |-> NoTime]

\* the document built by create_ticket
Schema(id, sender, ticket_subject, ticket_message, c_at, u_at) ==
  [_id |-> id, ticket_id |-> id,
   sender  |-> OrDefault(sender, "Unknown Sender"),
   subject |-> OrDefault(ticket_subject, "No Subject"),
   message |-> OrDefault(ticket_message, "No Content"),
   status |-> "open", created_at |-> c_at, updated_at |-> u_at]

\* the `if not sender` guard dropped
ShouldSendAlways(sender) == TRUE

\* send_ticket_email goes on to build and send a mail
ShouldSend(sender) == Truthy(sender)

\* the try block without its except clause
FailureEscapesUncaught(ok) == ~ok

\* `except Exception as e: print(...)`: whether a failure of the template
\* read or of the SMTP session leaves send_ticket_email as an exception
FailureEscapes(ok) == FALSE

\* a confirmation carrying the id after the ticket's
ConfirmationNextId(sender, id) == [to |-> sender, ticket |-> IdSucc(id)]

\* the confirmation: msg['To'] and the [TICKET_NUMBER] substituted
Confirmation(sender, id) == [to |-> sender, ticket |-> id]

\* ------------------------------------------------- parse_email in detail
\* For the parser itself a message is kept closer to the wire.  Text is a
\* sequence of code points, bytes are a sequence of values 0..255, a header
\* value is the sequence of its tokens (<<>> when the header is absent, for
\* which msg.get returns None), and an optional result is <<>> (None) or
\* <<text>>.
MaxParts == 2         \* parts of a multipart message, in walk order
MaxFrags == 2         \* fragments of a Subject header
MaxSwitch == 4        \* turns taken between two concurrent orchestrators

\* what bytes.decode puts nowhere: it raises UnicodeDecodeError
Undecodable == 0 - 1

\* str.encode(charset) of one code point below U+0800
EncodeChar(c, charset) ==
  IF charset = "iso-8859-1" \/ c < 128
  THEN <<c>>
  ELSE <<192 + (c \div 64), 128 + (c % 64)>>

\* the bytes a sender's mail program produces for a text
RECURSIVE Encode(_, _)
Encode(text, charset) ==
  IF text = <<>> THEN <<>>
  ELSE EncodeChar(Head(text), charset) \o Encode(Tail(text), charset)

\* bytes.decode(charset); a byte sequence that is not valid in the charset
\* yields Undecodable from the offending byte on
RECURSIVE Decode(_, _)
Decode(bytes, charset) ==
  IF bytes = <<>> THEN <<>>
  ELSE IF charset = "iso-8859-1" \/ Head(bytes) < 128
       THEN <<Head(bytes)>> \o Decode(Tail(bytes), charset)
  ELSE IF /\ Head(bytes) \in 192..223
          /\ Len(bytes) >= 2
          /\ bytes[2] \in 128..191
       THEN <<(Head(bytes) - 192) * 64 + (bytes[2] - 128)>>
            \o Decode(Tail(Tail(bytes)), charset)
  ELSE <<Undecodable>>

Raises(text) == \E i \in DOMAIN text : text[i] = Undecodable

\* the Subject header on the wire: one [charset, bytes] per fragment, the
\* charset None for a fragment left as plain ASCII
EncodeHeader(frags) ==
  [i \in DOMAIN frags |->
     [charset |-> frags[i].charset,
      bytes |-> Encode(frags[i].text,
                       IF frags[i].charset = None THEN "utf-8"
                       ELSE frags[i].charset)]]

RECURSIVE JoinBytes(_)
JoinBytes(frs) ==
  IF frs = <<>> THEN <<>> ELSE Head(frs).bytes \o JoinBytes(Tail(frs))

\* decode_header joins neighbouring fragments of one charset
RECURSIVE Collapse(_)
Collapse(frs) ==
  IF Len(frs) <= 1 THEN frs
  ELSE LET rest == Collapse(Tail(frs))
       IN IF Head(frs).charset = Head(rest).charset
          THEN <<[charset |-> Head(frs).charset,
                  bytes |-> Head(frs).bytes \o Head(rest).bytes]>>
               \o Tail(rest)
          ELSE <<Head(frs)>> \o rest

\* email.header.decode_header(subject): a header without encoded words
\* comes back as one (str, None) pair, any other as (bytes, charset) pairs
DecodeHeader(header) ==
  IF \A i \in DOMAIN header : header[i].charset = None
  THEN <<[value |-> Decode(JoinBytes(header), "utf-8"), charset |-> None,
          is_bytes |-> FALSE]>>
  ELSE LET c == Collapse(header)
       IN [i \in DOMAIN c |->
             [value |-> c[i].bytes, charset |-> c[i].charset,
              is_bytes |-> TRUE]]

\* "No Subject" as text
NoSubjectText == <<78, 111, 32, 83, 117, 98, 106, 101, 99, 116>>

\* ticket_subject of parse_email: decode_header(subject)[0], decoded when it
\* is bytes
ParseSubject(header) ==
  IF header = <<>> THEN NoSubjectText
  ELSE LET first == DecodeHeader(header)[1]
       IN IF first.is_bytes
          THEN Decode(first.value,
                      IF first.charset # None THEN first.charset ELSE "utf-8")
          ELSE first.value

\* str(part.get("Content-Disposition"))
StrOfHeader(h) == IF h = <<>> THEN <<"None">> ELSE h

\* "attachment" in content_disposition: the word occurs anywhere in the value
Contains(h, word) == \E i \in DOMAIN h : h[i] = word

\* the test of the for loop over msg.walk()
IsBodyPart(part) ==
  /\ part.content_type = "text/plain"
  /\ ~Contains(StrOfHeader(part.disposition), "attachment")

\* ticket_message of parse_email for a multipart message: the payload of the
\* first part that passes the test, decoded; None when no part passes
RECURSIVE WalkBody(_)
WalkBody(parts) ==
  IF parts = <<>> THEN <<>>
  ELSE IF IsBodyPart(Head(parts))
       THEN <<Decode(Head(parts).payload, "utf-8")>>
       ELSE WalkBody(Tail(parts))

\* ticket_message of parse_email
ParseBody(msg) ==
  IF msg.is_multipart THEN WalkBody(msg.parts)
  ELSE <<Decode(msg.parts[1].payload, "utf-8")>>

\* the message as message_from_bytes sees it, for a message as it was
\* composed
Wire(m) ==
  [from |-> m.from,
   subject |-> EncodeHeader(m.subject),
   is_multipart |-> m.is_multipart,
   parts |-> [i \in DOMAIN m.parts |->
                [content_type |-> m.parts[i].content_type,
                 disposition |-> m.parts[i].disposition,
                 payload |-> Encode(m.parts[i].text, m.parts[i].charset)]]]

\* sequences over S of length lo..hi
SeqsOf(S, lo, hi) == UNION {[1..n -> S] : n \in lo..hi}

\* the Content-Disposition headers of the parts: absent, inline, attachment
\* with a file name, inline; filename="attachment.txt"
Dispositions ==
  { <<>>,
    <<"inline">>,
    <<"attachment", ";", "filename=", "log.txt">>,
    <<"inline", ";", "filename=", "attachment", ".txt">> }

\* fragments of a composed Subject: "H" left plain, "H" or "e-acute" encoded
SubjectFragments ==
  {[text |-> <<72>>, charset |-> None]}
  \cup {[text |-> t, charset |-> c] :
          t \in {<<72>>, <<233>>}, c \in {"utf-8", "iso-8859-1"}}

\* the parts of a composed multipart message; part i carries the one-letter
\* text "A", "B", ... of its position
MultipartBodies ==
  UNION { { [i \in 1..n |->
              [content_type |-> ct[i], disposition |-> d[i],
               charset |-> "utf-8", text |-> <<64 + i>>]] :
            ct \in [1..n -> {"text/plain", "text/html"}],
            d \in [1..n -> Dispositions] } : n \in 1..MaxParts }

\* the single payload of a message that is not multipart
SingleBodies ==
  { <<[content_type |-> ct, disposition |-> <<>>,
       charset |-> tc[2], text |-> tc[1]]>> :
      ct \in {"text/plain", "text/html"},
      tc \in {<<<<65>>, "utf-8">>, <<<<233>>, "utf-8">>,
              <<<<233>>, "iso-8859-1">>} }

\* the composed messages the parser is applied to
ComposedMessages ==
  { [from |-> "alice@example.com", subject |-> sj,
     is_multipart |-> b[1], parts |-> b[2]] :
      sj \in SeqsOf(SubjectFragments, 0, MaxFrags),
      b \in ({TRUE} \X MultipartBodies) \cup ({FALSE} \X SingleBodies) }

\* ------------------------------------------------------------------ state
VARIABLES
  pc,              \* position of the orchestrator in run_system/process_emails
  mailbox,         \* the remote inbox: sequence of [raw, seen]
  store,           \* self.collection
  now,             \* the instant datetime.now() returns
  email_ids,       \* process_emails: the list being iterated
  k,               \* process_emails: position of the for loop in email_ids
  status,          \* parse_email: the status of the last fetch
  parsed,          \* sender, ticket_subject, ticket_message of parse_email
  year, month, date,   \* generate_ticket_id's locals
  new_ticket_id,   \* create_ticket's local
  call_t0,         \* history: instant at which generate_ticket_id was entered
  created_at,      \* schema["created_at"], evaluated before updated_at
  updated_at,      \* schema["updated_at"]
  sent,            \* the confirmations handed to the SMTP server, in order
  attempts,        \* history: every send attempt [msg, ticket, ok]
  made,            \* history: [id, msg, status] of every ticket inserted,
                   \*          in order: its message and that message's fetch
  cyc,             \* history: what the mail service answered in the
                   \*          current (or last) poll cycle
  nfail,           \* history: fetches answered "NO" and confirmations failed
  refused,         \* history: the _ids of the inserts the store refused
                   \*          because the primary key was present
  other,           \* a second orchestrator on the same store and mailbox,
                   \*          while it is not the one taking steps: its
                   \*          position and locals
  nswitch          \* the number of times the two orchestrators took turns

locals == <<email_ids, k, status, parsed, year, month, date, new_ticket_id,
            call_t0, created_at, updated_at>>
genlocals == <<year, month, date>>
hist == <<attempts, made, cyc, nfail, refused>>
sched == <<other, nswitch>>
vars == <<pc, mailbox, store, now, locals, sent, hist, sched>>

NoId == MkId(0, 0)

\* an orchestrator in position p with the locals of a fresh call
FreshProcess(p) ==
  [pc |-> p, email_ids |-> <<>>, k |-> 0, status |-> None,
   parsed |-> NoneTriple, year |-> 0, month |-> 0, date |-> 0,
   new_ticket_id |-> NoId, call_t0 |-> 0, created_at |-> NoTime,
   updated_at |-> NoTime, cyc |-> "none"]

Init ==
  /\ pc = "idle"
  /\ mailbox = <<>>
  /\ store = <<>>
  /\ now = 0
  /\ email_ids = <<>>
  /\ k = 0
  /\ status = None
  /\ parsed = NoneTriple
  /\ year = 0 /\ month = 0 /\ date = 0
  /\ new_ticket_id = NoId
  /\ call_t0 = 0
  /\ created_at = NoTime
  /\ updated_at = NoTime
  /\ sent = <<>>
  /\ attempts = <<>>
  /\ made = <<>>
  /\ cyc = "none"
  /\ nfail = 0
  /\ refused = {}
  /\ other = FreshProcess("absent")
  /\ nswitch = 0

\* the locals of a finished call are dead: forget them
ResetLocals ==
  /\ email_ids' = <<>>
  /\ k' = 0
  /\ status' = None
  /\ parsed' = NoneTriple
  /\ year' = 0 /\ month' = 0 /\ date' = 0
  /\ new_ticket_id' = NoId
  /\ call_t0' = 0
  /\ created_at' = NoTime
  /\ updated_at' = NoTime

\* an exception nobody catches leaves run_system: the process terminates
Crash ==
  /\ pc' = "crashed"
  /\ ResetLocals

\* process_emails returns: run_system sleeps and calls it again
EndCycle ==
  /\ pc' = "idle"
  /\ ResetLocals

\* ------------------------------------------------------------ environment
\* time passes
Tick ==
  /\ now < MaxClock
  /\ now' = now + 1
  /\ UNCHANGED <<sched, pc, mailbox, store, locals, sent, hist>>

\* a message is delivered to the inbox
Arrive ==
  /\ Len(mailbox) < MaxMsgs
  /\ \E raw \in RawMessages :
       mailbox' = Append(mailbox, [raw |-> raw, seen |-> FALSE])
  /\ UNCHANGED <<sched, pc, store, now, locals, sent, hist>>

\* -------------------------------------------------------- process_emails
\* run_system's loop calls process_emails, which first calls
\* connect_to_mail_service; a failed login ends the cycle.
Connect ==
  /\ pc = "idle"
  /\ \E ok \in BOOLEAN :
       IF ok
       THEN /\ pc' = "fetch_unseen"
            /\ cyc' = "connected"
       ELSE /\ pc' = "idle"
            /\ cyc' = "connect_failed"
  /\ UNCHANGED <<sched, mailbox, store, now, locals, sent, attempts, made,
                 nfail, refused>>

\* fetch_unseen_emails and the `if not email_ids: return` of process_emails.
\* cyc records what the mail service answered.
FetchUnseen ==
  /\ pc = "fetch_unseen"
  /\ \E st \in {"OK", "NO", "raise"} :
       IF st = "raise"
       THEN /\ Crash
            /\ UNCHANGED cyc
       ELSE LET ids == IF SelectFailed(st) THEN <<>> ELSE UnseenIds(mailbox)
            IN /\ cyc' = IF st # "OK" THEN "select_failed"
                          ELSE IF UnseenIds(mailbox) = <<>> THEN "no_unseen"
                          ELSE "listed"
               /\ IF ids = <<>>
                  THEN EndCycle
                  ELSE /\ pc' = "parse"
                       /\ email_ids' = ids
                       /\ k' = 1
                       /\ UNCHANGED <<status, parsed, genlocals, new_ticket_id,
                                      call_t0, created_at, updated_at>>
  /\ UNCHANGED <<sched, mailbox, store, now, sent, attempts, made, nfail,
                 refused>>

\* parse_email(email_id): the fetch marks the message seen when it succeeds.
\* The fetch may raise; it may answer "NO"; and it may answer "OK" with data
\* that data[0][1], message_from_bytes or .decode() cannot handle, which
\* raises as well.
ParseEmail ==
  /\ pc = "parse"
  /\ LET email_id == email_ids[k]
         raw == mailbox[email_id].raw
     IN \E st \in {"OK", "NO", "raise"}, wellformed \in BOOLEAN :
          CASE st = "raise" ->
                 /\ Crash
                 /\ UNCHANGED <<mailbox, nfail>>
            [] st = "NO" ->
                 /\ nfail < MaxFail
                 /\ nfail' = nfail + 1
                 /\ status' = st
                 /\ parsed' = NoneTriple
                 /\ pc' = "find_one"
                 /\ UNCHANGED <<mailbox, email_ids, k, genlocals,
                                new_ticket_id, call_t0, created_at, updated_at>>
            [] OTHER ->
                 /\ mailbox' = [mailbox EXCEPT ![email_id].seen = TRUE]
                 /\ UNCHANGED nfail
                 /\ IF ~wellformed
                    THEN Crash
                    ELSE /\ status' = st
                         /\ parsed' = ParsedFields(raw)
                         /\ pc' = "find_one"
                         /\ UNCHANGED <<email_ids, k, genlocals, new_ticket_id,
                                        call_t0, created_at, updated_at>>
  /\ UNCHANGED <<sched, store, now, sent, attempts, made, cyc, refused>>

\* ---------------------------------------------------- generate_ticket_id
\* empty_check = self.collection.find_one()
FindOne ==
  /\ pc = "find_one"
  /\ \E up \in BOOLEAN :
       IF up
       THEN /\ pc' = IF store = <<>> THEN "read_year" ELSE "find_latest"
            /\ call_t0' = now
            /\ UNCHANGED <<email_ids, k, status, parsed, genlocals,
                           new_ticket_id, created_at, updated_at>>
       ELSE Crash
  /\ UNCHANGED <<sched, mailbox, store, now, sent, hist>>

\* year = datetime.now().year
ReadYear ==
  /\ pc = "read_year"
  /\ year' = DateOf(now).year
  /\ pc' = "read_month"
  /\ UNCHANGED <<sched, mailbox, store, now, email_ids, k, status, parsed, month, date,
                 new_ticket_id, call_t0, created_at, updated_at, sent, hist>>

\* month = datetime.now().month
ReadMonth ==
  /\ pc = "read_month"
  /\ month' = DateOf(now).month
  /\ pc' = "read_date"
  /\ UNCHANGED <<sched, mailbox, store, now, email_ids, k, status, parsed, year, date,
                 new_ticket_id, call_t0, created_at, updated_at, sent, hist>>

\* date = datetime.now().strftime("%d")
ReadDate ==
  /\ pc = "read_date"
  /\ date' = DateOf(now).day
  /\ pc' = "insert_sentinel"
  /\ UNCHANGED <<sched, mailbox, store, now, email_ids, k, status, parsed, year, month,
                 new_ticket_id, call_t0, created_at, updated_at, sent, hist>>

\* insert_one of the sentinel document; return initial_ticket_id
InsertSentinel ==
  /\ pc = "insert_sentinel"
  /\ \E up \in BOOLEAN :
       IF up /\ ~HasId(store, SentinelId)
       THEN /\ store' = InsertOne(store,
                          SentinelRecord(InitialTicketId(year, month, date)))
            /\ new_ticket_id' = InitialTicketId(year, month, date)
            /\ pc' = "created_at"
            /\ UNCHANGED <<email_ids, k, status, parsed, genlocals, call_t0,
                           created_at, updated_at, refused>>
       ELSE /\ Crash
            /\ refused' = IF up THEN refused \cup {SentinelId} ELSE refused
            /\ UNCHANGED store
  /\ UNCHANGED <<sched, mailbox, now, sent, attempts, made, cyc, nfail>>

\* latest_ticket_id = find_one(sort=[('_id', -1)])['_id']; return it + 1
FindLatest ==
  /\ pc = "find_latest"
  /\ \E up \in BOOLEAN :
       IF up
       THEN /\ new_ticket_id' = IdSucc(LatestId(store))
            /\ pc' = "created_at"
            /\ UNCHANGED <<email_ids, k, status, parsed, genlocals, call_t0,
                           created_at, updated_at>>
       ELSE Crash
  /\ UNCHANGED <<sched, mailbox, store, now, sent, hist>>

\* ---------------------------------------------------------- create_ticket
\* "created_at": datetime.now()
ReadCreatedAt ==
  /\ pc = "created_at"
  /\ created_at' = now
  /\ pc' = "updated_at"
  /\ UNCHANGED <<sched, mailbox, store, now, email_ids, k, status, parsed, genlocals,
                 new_ticket_id, call_t0, updated_at, sent, hist>>

\* "updated_at": datetime.now()
ReadUpdatedAt ==
  /\ pc = "updated_at"
  /\ updated_at' = now
  /\ pc' = "insert_ticket"
  /\ UNCHANGED <<sched, mailbox, store, now, email_ids, k, status, parsed, genlocals,
                 new_ticket_id, call_t0, created_at, sent, hist>>

\* self.collection.insert_one(schema); return new_ticket_id
InsertTicket ==
  /\ pc = "insert_ticket"
  /\ \E up \in BOOLEAN :
       IF up /\ ~HasId(store, new_ticket_id)
       THEN /\ store' = InsertOne(store,
                          Schema(new_ticket_id, parsed.sender, parsed.subject,
                                 parsed.message, created_at, updated_at))
            /\ made' = Append(made, [id |-> new_ticket_id, msg |-> email_ids[k],
                                  status |-> status])
            /\ pc' = "send"
            /\ UNCHANGED <<locals, refused>>
       ELSE /\ refused' = IF up THEN refused \cup {new_ticket_id} ELSE refused
            /\ Crash
            /\ UNCHANGED <<store, made>>
  /\ UNCHANGED <<sched, mailbox, now, sent, attempts, cyc, nfail>>

\* ------------------------------------------------------ send_ticket_email
\* send_ticket_email(sender, new_ticket_id), then the next iteration of the
\* for loop or the end of process_emails
SendTicketEmail ==
  /\ pc = "send"
  /\ \E ok \in BOOLEAN :
       /\ IF ShouldSend(parsed.sender)
          THEN /\ ok \/ nfail < MaxFail
               /\ nfail' = IF ok THEN nfail ELSE nfail + 1
               /\ sent' = IF ok
                          THEN Append(sent,
                                      Confirmation(parsed.sender, new_ticket_id))
                          ELSE sent
               /\ attempts' = Append(attempts,
                                 [msg |-> email_ids[k], to |-> parsed.sender,
                                  ticket |-> new_ticket_id, ok |-> ok])
          ELSE /\ ok
               /\ UNCHANGED <<sent, attempts, nfail>>
       /\ IF FailureEscapes(ok)
          THEN Crash
          ELSE IF HasNext(email_ids, k)
          THEN /\ pc' = "parse"
               /\ k' = k + 1
               /\ status' = None
               /\ parsed' = NoneTriple
               /\ year' = 0 /\ month' = 0 /\ date' = 0
               /\ new_ticket_id' = NoId
               /\ call_t0' = 0
               /\ created_at' = NoTime
               /\ updated_at' = NoTime
               /\ UNCHANGED email_ids
          ELSE EndCycle
  /\ UNCHANGED <<sched, mailbox, store, now, made, cyc, refused>>

\* ------------------------------------------------------- process control
\* the process is killed from outside, at any point
Kill ==
  /\ pc \notin {"crashed", "killed"}
  /\ pc' = "killed"
  /\ ResetLocals
  /\ UNCHANGED <<sched, mailbox, store, now, sent, hist>>

\* run_system is started again against the same store and mailbox
Restart ==
  /\ pc \in {"crashed", "killed"}
  /\ pc' = "idle"
  /\ UNCHANGED <<sched, mailbox, store, now, locals, sent, hist>>

\* ---------------------------------------------------------- specifications
Next ==
  \/ Tick
  \/ Arrive
  \/ Connect
  \/ FetchUnseen
  \/ ParseEmail
  \/ FindOne
  \/ ReadYear
  \/ ReadMonth
  \/ ReadDate
  \/ InsertSentinel
  \/ FindLatest
  \/ ReadCreatedAt
  \/ ReadUpdatedAt
  \/ InsertTicket
  \/ SendTicketEmail

\* one run of run_system from an empty store
Spec == Init /\ [][Next]_vars

NextRestart ==
  \/ Next
  \/ Kill
  \/ Restart

\* run_system killed and started again any number of times
SpecRestart == Init /\ [][NextRestart]_vars

\* the second orchestrator takes over: from here on the steps are its steps,
\* until the next switch
Switch ==
  /\ other.pc # "absent"
  /\ nswitch < MaxSwitch
  /\ nswitch' = nswitch + 1
  /\ pc' = other.pc
  /\ email_ids' = other.email_ids
  /\ k' = other.k
  /\ status' = other.status
  /\ parsed' = other.parsed
  /\ year' = other.year /\ month' = other.month /\ date' = other.date
  /\ new_ticket_id' = other.new_ticket_id
  /\ call_t0' = other.call_t0
  /\ created_at' = other.created_at
  /\ updated_at' = other.updated_at
  /\ cyc' = other.cyc
  /\ other' = [pc |-> pc, email_ids |-> email_ids, k |-> k, status |-> status,
               parsed |-> parsed, year |-> year, month |-> month,
               date |-> date, new_ticket_id |-> new_ticket_id,
               call_t0 |-> call_t0, created_at |-> created_at,
               updated_at |-> updated_at, cyc |-> cyc]
  /\ UNCHANGED <<mailbox, store, now, sent, attempts, made, nfail, refused>>

\* the steps of the orchestrator itself
Orchestrator ==
  \/ Connect
  \/ FetchUnseen
  \/ ParseEmail
  \/ FindOne
  \/ ReadYear
  \/ ReadMonth
  \/ ReadDate
  \/ InsertSentinel
  \/ FindLatest
  \/ ReadCreatedAt
  \/ ReadUpdatedAt
  \/ InsertTicket
  \/ SendTicketEmail

\* two orchestrators started on one empty store and one mailbox, in which
\* messages with a sender, a subject and a body are waiting; the allowance
\* of "NO" answers and failed confirmations is taken as used up
InitTwo ==
  /\ pc = "idle"
  /\ \E raw \in {r \in RawMessages : Truthy(r.from) /\ Truthy(r.subject)} :
       mailbox = [i \in 1..MaxMsgs |-> [raw |-> raw, seen |-> FALSE]]
  /\ store = <<>>
  /\ now = 0
  /\ email_ids = <<>>
  /\ k = 0
  /\ status = None
  /\ parsed = NoneTriple
  /\ year = 0 /\ month = 0 /\ date = 0
  /\ new_ticket_id = NoId
  /\ call_t0 = 0
  /\ created_at = NoTime
  /\ updated_at = NoTime
  /\ sent = <<>>
  /\ attempts = <<>>
  /\ made = <<>>
  /\ cyc = "none"
  /\ nfail = MaxFail
  /\ refused = {}
  /\ other = FreshProcess("idle")
  /\ nswitch = 0

NextTwo ==
  \/ Orchestrator
  \/ Switch
  \/ Restart

\* two concurrent runs of run_system, interleaved step by step; a run that
\* ended is started again
SpecTwo == InitTwo /\ [][NextTwo]_vars

\* the login succeeds
ConnectSucceeds == Connect /\ pc' = "fetch_unseen"

\* select and search answer OK
ListSucceeds == FetchUnseen /\ cyc' \in {"listed", "no_unseen"}

\* one run of run_system whose process keeps running while it has a step to
\* take (`while True`, each call returns or raises), with a mail service
\* whose login and listing do not fail forever
SpecLive ==
  /\ Init
  /\ [][Next]_vars
  /\ WF_vars(Orchestrator)
  /\ SF_vars(ConnectSucceeds)
  /\ SF_vars(ListSucceeds)

\* parse_email alone: a composed message is in the inbox and is fetched
InitParse ==
  /\ pc = "parse"
  /\ \E m \in ComposedMessages : mailbox = <<[raw |-> m, seen |-> FALSE]>>
  /\ store = <<>>
  /\ now = 0
  /\ email_ids = <<1>>
  /\ k = 1
  /\ status = None
  /\ parsed = NoneTriple
  /\ year = 0 /\ month = 0 /\ date = 0
  /\ new_ticket_id = NoId
  /\ call_t0 = 0
  /\ created_at = NoTime
  /\ updated_at = NoTime
  /\ sent = <<>>
  /\ attempts = <<>>
  /\ made = <<>>
  /\ cyc = "listed"
  /\ nfail = 0
  /\ refused = {}
  /\ other = FreshProcess("absent")
  /\ nswitch = 0

\* parse_email after a fetch answered OK: message_from_bytes, the Subject
\* and the body; a payload that .decode() cannot decode raises
ParseFetched ==
  /\ pc = "parse"
  /\ LET email_id == email_ids[k]
         msg == Wire(mailbox[email_id].raw)
         ticket_subject == ParseSubject(msg.subject)
         ticket_message == ParseBody(msg)
     IN /\ mailbox' = [mailbox EXCEPT ![email_id].seen = TRUE]
        /\ IF \/ Raises(ticket_subject)
              \/ ticket_message # <<>> /\ Raises(ticket_message[1])
           THEN Crash
           ELSE /\ status' = "OK"
                /\ parsed' = [sender |-> msg.from, subject |-> ticket_subject,
                              message |-> ticket_message]
                /\ pc' = "find_one"
                /\ UNCHANGED <<email_ids, k, genlocals, new_ticket_id,
                               call_t0, created_at, updated_at>>
  /\ UNCHANGED <<sched, store, now, sent, hist>>

SpecParse == InitParse /\ [][ParseFetched]_vars

TypeOK ==
  /\ pc \in {"idle", "fetch_unseen", "parse", "find_one", "read_year",
             "read_month", "read_date", "insert_sentinel", "find_latest",
             "created_at", "updated_at", "insert_ticket", "send",
             "crashed", "killed"}
  /\ now \in 0..MaxClock
  /\ Len(mailbox) <= MaxMsgs
  /\ nfail \in 0..MaxFail

\* ================================================================ claims
\* the ticket documents of the store, in insertion order
Tickets == SelectSeq(store, LAMBDA r : r._id # SentinelId)

\* the largest _id of a collection, by its definition
MaxIdOf(st) ==
  CHOOSE x \in {st[i]._id : i \in DOMAIN st} :
    \A i \in DOMAIN st : st[i]._id = x \/ IdLess(st[i]._id, x)

\* the date seeds of the dates the clock showed from instant t0 to now
SeedsSince(t0) == {DateSeed(DateOf(t)) : t \in t0..now}

\* C1: the ids of the tickets are pairwise distinct and strictly increasing
\* in creation order, over any number of poll cycles, kills and restarts and
\* changes of the date.
C1_IdsStrictlyIncreasing ==
  \A i, j \in DOMAIN Tickets :
    i < j => IdLess(Tickets[i]._id, Tickets[j]._id)

\* two tickets exist that were created on different days
C1_Witness ==
  \E i, j \in DOMAIN Tickets :
    /\ i < j
    /\ DayOf(Tickets[i].created_at) # DayOf(Tickets[j].created_at)

\* C2: generate_ticket_id on an empty store returns the date seed of the
\* current date and inserts the sentinel; on a non-empty store it returns
\* the maximum _id + 1 and leaves the store unchanged; hence the first
\* ticket's id is the date seed and every later ticket's id is the previous
\* ticket's id + 1.
C2_GenerateTicketId ==
  [][ /\ (pc = "insert_sentinel" /\ pc' = "created_at") =>
           /\ new_ticket_id' \in SeedsSince(call_t0)
           /\ store' = <<SentinelRecord(new_ticket_id')>>
      /\ (pc = "find_latest" /\ pc' = "created_at") =>
           /\ new_ticket_id' = IdSucc(MaxIdOf(store))
           /\ store' = store
      /\ (made' # made) =>
           IF made = <<>>
           THEN made'[1].id \in SeedsSince(call_t0)
           ELSE made'[Len(made')].id = IdSucc(made[Len(made)].id) ]_vars

\* C3: a ticket is created exactly once per unseen message: no message has
\* two tickets, and no message that was fetched or listed as unseen is left
\* without a ticket once its cycle is over.
C3_ExactlyOncePerMessage ==
  /\ \A i, j \in DOMAIN made : i # j => made[i].msg # made[j].msg
  /\ pc \in {"idle", "crashed"} =>
       \A m \in SeenSet(mailbox) : \E i \in DOMAIN made : made[i].msg = m

\* C4: while the orchestrator handles a message whose fetch status was not
\* OK, no ticket is inserted and no confirmation is sent.
C4_FailedFetchAbandoned ==
  [][status = "NO" => /\ made' = made
                      /\ sent' = sent
                      /\ attempts' = attempts]_vars

\* C5: no failure of an external call terminates the orchestrator loop.
C5_NoFailureIsFatal == pc # "crashed"

\* the document of the store with primary key id
Doc(id) == store[CHOOSE i \in DOMAIN store : store[i]._id = id]

\* the From header of message m is absent or empty
NoFrom(m) == mailbox[m].raw.from \in {None, ""}

\* C6: a message without From header gets a ticket with sender
\* "Unknown Sender" and no confirmation; a confirmation is attempted only
\* for messages whose sender is present.
C6_UnknownSenderNoMail ==
  /\ \A i \in DOMAIN made :
       NoFrom(made[i].msg) =>
         /\ Doc(made[i].id).sender = "Unknown Sender"
         /\ \A j \in DOMAIN attempts : attempts[j].msg # made[i].msg
  /\ \A j \in DOMAIN attempts : ~NoFrom(attempts[j].msg)
  /\ \A j \in DOMAIN sent : sent[j].to \notin {None, ""}

\* a fetched message without From header has its ticket and the
\* orchestrator is past the send step for it
C6_Witness ==
  /\ pc = "idle"
  /\ \E i \in DOMAIN made : made[i].status = "OK" /\ NoFrom(made[i].msg)

\* C7: when a confirmation is sent, the ticket it references is already in
\* the store, was created from the message being handled, and its stored
\* sender is the recipient.
C7_ConfirmationAfterTicket ==
  [][sent' # sent =>
       LET e == sent'[Len(sent')]
       IN /\ Len(sent') = Len(sent) + 1
          /\ \E i \in DOMAIN store :
               /\ store[i]._id = e.ticket
               /\ store[i].sender = e.to
          /\ \E n \in DOMAIN made :
               /\ made[n].id = e.ticket
               /\ made[n].msg = email_ids[k] ]_vars

\* two confirmations have been sent
C7_Witness == Len(sent) >= 2

\* C8: the sentinel is inert, also over kills and restarts: at most one
\* sentinel, below every ticket id, no ticket id is sentinel + 1, and every
\* ticket id is the seed kept in the sentinel or one more than another
\* ticket's id.
C8_SentinelInert ==
  /\ Cardinality({i \in DOMAIN store : store[i]._id = SentinelId}) <= 1
  /\ \A i \in DOMAIN Tickets :
       /\ IdLess(SentinelId, Tickets[i]._id)
       /\ Tickets[i]._id # IdSucc(SentinelId)
       /\ \/ Tickets[i]._id = store[1].ticket_id
          \/ \E j \in DOMAIN Tickets : Tickets[i]._id = IdSucc(Tickets[j]._id)

\* C9: from an empty store and without failures, after n >= 1 messages the
\* store holds the sentinel and n tickets, one per message in processing
\* order, the confirmations sent are as many as the messages with a sender,
\* and for n = 1 the ticket has the date-seed id, carried by the
\* confirmation.
C9_EndToEnd ==
  LET n == Cardinality(SeenSet(mailbox))
      NoFailure == nfail = 0
  IN (NoFailure /\ pc = "idle" /\ n >= 1) =>
       /\ Len(store) = n + 1
       /\ store[1]._id = SentinelId
       /\ Len(made) = n
       /\ \A i \in 1..n : /\ store[i + 1]._id = made[i].id
                          /\ made[i].msg \in SeenSet(mailbox)
                          /\ \A j \in 1..n : i < j => made[i].msg < made[j].msg
       /\ Len(sent) = Cardinality({m \in SeenSet(mailbox) : ~NoFrom(m)})
       /\ n = 1 => /\ store[2]._id \in SeedsSince(0)
                   /\ \A j \in DOMAIN sent : sent[j].ticket = store[2]._id

\* C10: in a poll cycle whose connect fails, whose select fails or whose
\* unseen list is empty, no step changes the store, sends or attempts a
\* confirmation, or turns a message from unseen to seen.
C10_NoOpCycle ==
  [][cyc' \in {"connected", "connect_failed", "select_failed", "no_unseen"} =>
       /\ store' = store
       /\ sent' = sent
       /\ attempts' = attempts
       /\ SeenSet(mailbox') = SeenSet(mailbox)]_vars

\* a cycle whose select failed has ended while a message was unseen and the
\* store held tickets
C10_Witness ==
  /\ pc = "idle"
  /\ cyc = "select_failed"
  /\ UnseenIds(mailbox) # <<>>
  /\ Tickets # <<>>

\* C11: the store is append-only: every step leaves each document already in
\* the store where it is and as it is, none is removed, and the step that
\* creates a ticket adds exactly one document.
C11_AppendOnly ==
  [][ /\ Len(store') >= Len(store)
      /\ \A i \in DOMAIN store : store'[i] = store[i]
      /\ made' # made => Len(store') = Len(store) + 1 ]_vars

\* a ticket was created while the store held the sentinel and a ticket
C11_Witness == Len(store) >= 3

\* C12: the ticket just created, read back by its id, has status "open" and
\* carries the parsed sender, subject and body where these are non-empty and
\* "Unknown Sender", "No Subject", "No Content" where they are None or
\* empty; every ticket of the store has status "open" and non-empty sender,
\* subject and message.
C12_RoundTrip ==
  /\ pc = "send" =>
       LET r == Doc(new_ticket_id)
           Stored(x, default) == IF x = None \/ x = "" THEN default ELSE x
       IN /\ r.status = "open"
          /\ r.ticket_id = new_ticket_id
          /\ r.sender = Stored(parsed.sender, "Unknown Sender")
          /\ r.subject = Stored(parsed.subject, "No Subject")
          /\ r.message = Stored(parsed.message, "No Content")
  /\ \A i \in DOMAIN Tickets :
       /\ Tickets[i].status = "open"
       /\ Tickets[i].sender \notin {None, ""}
       /\ Tickets[i].subject \notin {None, ""}
       /\ Tickets[i].message \notin {None, ""}

\* a ticket was just created from a message with an empty body and no From
\* header, and the store also holds a ticket that kept its parsed fields
C12_Witness ==
  /\ pc = "send"
  /\ parsed.message = ""
  /\ parsed.sender = None
  /\ \E i \in DOMAIN Tickets :
       /\ Tickets[i].message = "It's broken"
       /\ Tickets[i].sender = "alice@example.com"

\* C13: every ticket has created_at equal to updated_at, whatever the clock
\* does between the steps of create_ticket.
C13_CreatedEqualsUpdated ==
  \A i \in DOMAIN Tickets : Tickets[i].created_at = Tickets[i].updated_at

\* the message being parsed, as it was composed
Composed == mailbox[1].raw

\* the disposition of a part: the first token of its Content-Disposition
Disposition(part) ==
  IF part.disposition = <<>> THEN None ELSE part.disposition[1]

\* the content of the first text/plain part that is not an attachment
RECURSIVE FirstPlainText(_)
FirstPlainText(parts) ==
  IF parts = <<>> THEN <<>>
  ELSE IF /\ Head(parts).content_type = "text/plain"
          /\ Disposition(Head(parts)) # "attachment"
       THEN <<Head(parts).text>>
       ELSE FirstPlainText(Tail(parts))

\* C14: the body parse_email returns for a multipart message is the content
\* of the first part, in walk order, that is text/plain and whose
\* disposition is not attachment, and None when there is no such part; for
\* a message that is not multipart it is the single payload.
C14_BodySelection ==
  pc = "find_one" =>
    parsed.message = IF Composed.is_multipart
                     THEN FirstPlainText(Composed.parts)
                     ELSE <<Composed.parts[1].text>>

\* the text of the Subject before it was encoded
RECURSIVE JoinText(_)
JoinText(frags) ==
  IF frags = <<>> THEN <<>> ELSE Head(frags).text \o JoinText(Tail(frags))

\* C15: for a message with a Subject header of one or more encoded or plain
\* fragments, the subject parse_email returns is the text the header was
\* encoded from.
C15_SubjectRoundTrip ==
  (pc = "find_one" /\ Composed.subject # <<>>) =>
    parsed.subject = JoinText(Composed.subject)

\* the orchestrator is inside the for loop of process_emails
InLoop == pc \notin {"idle", "fetch_unseen", "crashed", "killed"}

\* the number of messages of the current cycle that have their ticket
Ticketed == IF pc = "send" THEN k ELSE k - 1

\* the entry of made for position i of the current cycle's list
CycleTicket(i) == made[Len(made) - Ticketed + i]

\* the messages of the current cycle are handled one at a time, in list
\* order
C16_OneAtATime ==
  InLoop =>
    /\ k \in 1..Len(email_ids)
    /\ Len(made) >= Ticketed
    /\ \A i \in 1..Ticketed :
         /\ CycleTicket(i).msg = email_ids[i]
         /\ HasId(store, CycleTicket(i).id)
         /\ \A j \in 1..Ticketed :
              i < j => IdLess(CycleTicket(i).id, CycleTicket(j).id)
    /\ \A i \in 1..(k - 1) :
         (CycleTicket(i).status = "OK" /\ ~NoFrom(email_ids[i])) =>
           \E a \in DOMAIN attempts :
             /\ attempts[a].msg = email_ids[i]
             /\ attempts[a].ticket = CycleTicket(i).id
    /\ \A j \in (k + 1)..Len(email_ids) : ~mailbox[email_ids[j]].seen
    /\ pc = "parse" => ~mailbox[email_ids[k]].seen

\* C16: within a poll cycle the messages are processed one at a time in the
\* order of the unseen list: when message j is parsed, every message before
\* it in the list has its ticket in the store and its confirmation attempted,
\* no message after it has been fetched, and the tickets' ids increase in
\* list order; the cycle ends, and the next connect can happen, only after
\* the send step of the last message of the list.
C16_InOrder ==
  /\ []C16_OneAtATime
  /\ [][(InLoop /\ pc' = "idle") =>
          (pc = "send" /\ k = Len(email_ids))]_vars

\* the second message of a cycle has its ticket, after the first message's
\* confirmation was attempted
C16_Witness ==
  /\ pc = "send"
  /\ k = 2
  /\ \E a \in DOMAIN attempts : attempts[a].msg = email_ids[1]

\* C17: a send attempt, failed or not, leaves the store as it is with the
\* ticket in it, is the only attempt for its ticket, and a failed one sends
\* nothing and lets the loop go on: to the parse of the next message of the
\* list, or to the end of the cycle after the last one.
C17_SendFailureContained ==
  [][attempts' # attempts =>
       LET a == attempts'[Len(attempts')]
       IN /\ Len(attempts') = Len(attempts) + 1
          /\ store' = store
          /\ HasId(store, a.ticket)
          /\ \A i \in DOMAIN attempts : attempts[i].ticket # a.ticket
          /\ ~a.ok =>
               /\ sent' = sent
               /\ IF k < Len(email_ids)
                  THEN /\ pc' = "parse"
                       /\ k' = k + 1
                       /\ email_ids' = email_ids
                  ELSE pc' = "idle" ]_vars

\* the confirmation of the first message of a cycle failed and the second
\* message has its ticket
C17_Witness ==
  /\ pc = "send"
  /\ k = 2
  /\ \E a \in DOMAIN attempts :
       /\ ~attempts[a].ok
       /\ attempts[a].msg = email_ids[1]
       /\ attempts[a].ticket = CycleTicket(1).id

\* message m has a ticket
HasTicket(m) == \E i \in DOMAIN made : made[i].msg = m

\* C18: every message that is unseen in the mailbox eventually has a ticket
\* in the store, and the orchestrator is at the start of a poll cycle
\* infinitely often.
C18_Liveness ==
  /\ \A m \in 1..MaxMsgs :
       (m \in DOMAIN mailbox /\ ~mailbox[m].seen) ~> HasTicket(m)
  /\ []<>(pc = "idle")

\* both orchestrators are between generate_ticket_id's return and the
\* insert of their ticket
BothHoldAnId ==
  /\ pc \in {"created_at", "updated_at", "insert_ticket"}
  /\ other.pc \in {"created_at", "updated_at", "insert_ticket"}

\* C19: with two orchestrators on one store the id generation races (both
\* can be about to insert the sentinel, and both can hold the same new id
\* before either inserts); in every interleaving the primary key is what
\* keeps the _ids of the store distinct: an insert is refused only for a key
\* that is present, whether the sentinel's or a ticket's, no two tickets are
\* created with one id, and while both orchestrators are about to insert
\* the sentinel the store is still empty.
C19_RacesEndInRefusal ==
  /\ \A i, j \in DOMAIN store : i # j => store[i]._id # store[j]._id
  /\ \A i, j \in DOMAIN made : i # j => made[i].id # made[j].id
  /\ \A id \in refused : HasId(store, id)
  /\ (pc = "insert_sentinel" /\ other.pc = "insert_sentinel") =>
       store = <<>>

\* an insert of the sentinel was refused, which takes two orchestrators
\* that both saw the store empty, and now both hold one and the same new id
\* that neither has inserted
C19_Witness ==
  /\ SentinelId \in refused
  /\ BothHoldAnId
  /\ new_ticket_id = other.new_ticket_id
  /\ ~HasId(store, new_ticket_id)

\* no insert targets a primary key that is in the store
InsertsHitNoKey ==
  /\ refused = {}
  /\ pc = "insert_sentinel" => ~HasId(store, SentinelId)
  /\ pc = "insert_ticket" => ~HasId(store, new_ticket_id)

\* C20: with a single orchestrator no insert targets an _id that is present,
\* and the ticket_id of every record of the store, the sentinel included,
\* equals its _id and is unique across the records.
C20_TicketIdIsId ==
  /\ InsertsHitNoKey
  /\ \A i \in DOMAIN store :
       /\ store[i].ticket_id = store[i]._id
       /\ \A j \in DOMAIN store :
            i # j => store[i].ticket_id # store[j].ticket_id

\* C20, amended: with a single orchestrator no insert targets an _id that is
\* present and the _ids of all records are distinct; the ticket_id of every
\* ticket equals its _id and is unique among the tickets; the sentinel's
\* ticket_id is a date seed, not its _id.
C20_TicketIdIsIdOfTickets ==
  /\ InsertsHitNoKey
  /\ \A i, j \in DOMAIN store : i # j => store[i]._id # store[j]._id
  /\ \A i \in DOMAIN Tickets :
       /\ Tickets[i].ticket_id = Tickets[i]._id
       /\ \A j \in DOMAIN Tickets :
            i # j => Tickets[i].ticket_id # Tickets[j].ticket_id
  /\ \A i \in DOMAIN store :
       store[i]._id = SentinelId =>
         /\ store[i].ticket_id # store[i]._id
         /\ store[i].ticket_id.lo = counter

\* the store holds the sentinel, a ticket with the sentinel's ticket_id and
\* a later ticket
C20_Witness ==
  /\ Len(Tickets) >= 2
  /\ store[1]._id = SentinelId
  /\ Tickets[1].ticket_id = store[1].ticket_id

====
